---- MODULE Spec2Model ----
(***************************************************************************)
(* Model of tinyml's HIR type engine (src/hir.rs: Variable cells, unify,   *)
(* generalize, instantiate) and of the lowering context                    *)
(* (src/concrete/lowering.rs: scopes, fresh names, lookup, sep_by).        *)
(***************************************************************************)
EXTENDS Integers, Sequences, FiniteSets

VARIABLES
    store,      \* heap of Variable cells: cell id -> None or the bound Type
    nalloc,     \* number of Variable cells allocated so far (Arc identities)
    last,       \* record of the last type-engine operation and its result
    sch,        \* the Scheme currently held by the caller
    insts,      \* the results of instantiate on sch, in call order
    ctxs,       \* the LoweringCtx values alive: the first one and its clones
    counter,    \* the fresh-name counter, one Rc<Cell<usize>> shared by the clones
    defs,       \* the Definitions allocated so far: definition id -> its name
    fresh,      \* the names new_fresh_variable returned, in call order
    lres,       \* record of the last context operation and its result
    debug,      \* whether the build has debug_assertions
    gas,        \* the recursion budget counter, shared by the clones
    sres        \* record of the last sep_by call and its result

tvars == <<store, nalloc, last, sch, insts>>
cvars == <<ctxs, counter, defs, fresh, lres>>
svars == <<debug, gas, sres>>
vars == <<store, nalloc, last, sch, insts, ctxs, counter, defs, fresh, lres,
          debug, gas, sres>>

----------------------------------------------------------------------------
(* Bounds *)

Fuel == 14        \* recursion depth after which a call is reported as divergent
MaxLen == 3       \* longest Pair / Tuple element list drawn as an input
LeftCells == 1    \* hole cells available to the left operand  (pure unify runs)
RightCells == 2   \* hole cells available to the right operand (pure unify runs)
ZipLen == 3       \* longest element list of the Pair / Tuple unify runs
ZipCells == 1     \* hole cells available to each operand of those runs
MaxHoles == 2     \* Variable::default() calls made by the caller in a run
RebindHoles == 1  \* holes made in the runs that unify one hole repeatedly
MaxInst == 2      \* instantiate calls made on one scheme
MaxCtx == 2       \* LoweringCtx values alive (the first and its clones)
MaxCounter == 3   \* new_fresh_variable calls made in a run
MaxIntro == 1     \* named variables and constructors introduced in a run
MaxDepth == 3     \* longest operator spine of a term given to sep_by
NameRange == 10000 \* counter values whose synthesized names are compared

(* Program constants *)

GasLimit == 10000 \* the recursion budget of burn

----------------------------------------------------------------------------
(* Type (hir.rs:105-119) as a record of uniform shape.                      *)

Ty(tag, ref, idx, elems) == [tag |-> tag, ref |-> ref, idx |-> idx, elems |-> elems]

Any == Ty("Any", "", 0, <<>>)
Pair(elements) == Ty("Pair", "", 0, elements)
Tuple(elements) == Ty("Tuple", "", 0, elements)
Fun(domain, codomain) == Ty("Fun", "", 0, <<domain, codomain>>)
App(name, argument) == Ty("App", name, 0, <<argument>>)
Local(inner) == Ty("Local", "", 0, <<inner>>)
Constructor(ref) == Ty("Constructor", ref, 0, <<>>)
Meta(idx) == Ty("Meta", "", idx, <<>>)
Hole(cell) == Ty("Hole", "", cell, <<>>)

\* Option<Type>::None, the content of an unbound Variable
None == Ty("None", "", 0, <<>>)

Min(a, b) == IF a < b THEN a ELSE b

\* Variable::value / Variable::update
Value(st, h) == st[h]
Update(st, h, value) == [st EXCEPT ![h] = value]

----------------------------------------------------------------------------
(* Type::unify (hir.rs:260-298).  The result carries the store after the    *)
(* call (bindings made before a failure are kept), the Result variant and   *)
(* the error payload.  A call whose recursion exceeds Fuel never returns.   *)

UOk(st) == [st |-> st, kind |-> "Ok", args |-> <<>>]
UErr(st, kind, l, r) == [st |-> st, kind |-> kind, args |-> <<l, r>>]
UDiverge(st) == [st |-> st, kind |-> "Diverge", args |-> <<>>]

RECURSIVE Unify(_, _, _, _)
RECURSIVE UnifyElems(_, _, _, _, _)

\* a unify whose sequences must have the same length
RECURSIVE UnifyElemsArity(_, _, _, _, _)
UnifyElemsArity(st, ls, rs, i, fuel) ==
    IF Len(ls) # Len(rs) THEN UErr(st, "IncompatibleTypes", ls, rs)
    ELSE IF i > Len(ls) THEN UOk(st)
    ELSE LET r == Unify(st, ls[i], rs[i], fuel)
         IN IF r.kind # "Ok" THEN r ELSE UnifyElemsArity(r.st, ls, rs, i + 1, fuel)

\* for (l, r) in lelements.zip(relements) { l.unify(r)?; } Ok(())
UnifyElems(st, ls, rs, i, fuel) ==
    IF i > Min(Len(ls), Len(rs)) THEN UOk(st)
    ELSE LET r == Unify(st, ls[i], rs[i], fuel)
         IN IF r.kind # "Ok" THEN r ELSE UnifyElems(r.st, ls, rs, i + 1, fuel)

\* a Hole case that overwrites the cell whether or not it is bound
UnifyHoleRebind(st, h, value, fuel) == UOk(Update(st, h, value))

\* contents.unify(value) for a bound hole, h.update(value) for an unbound one
UnifyHole(st, h, value, fuel) ==
    IF Value(st, h) # None
    THEN Unify(st, Value(st, h), value, fuel)
    ELSE UOk(Update(st, h, value))

Unify(st, lhs, rhs, fuel) ==
    IF fuel = 0 THEN UDiverge(st)
    ELSE IF lhs.tag = "Any" \/ rhs.tag = "Any" THEN UOk(st)
    ELSE IF lhs.tag = "Local" /\ rhs.tag = "Local"
        THEN Unify(st, lhs.elems[1], rhs.elems[1], fuel - 1)
    ELSE IF lhs.tag = "Constructor" /\ rhs.tag = "Constructor" /\ lhs.ref = rhs.ref
        THEN UOk(st)
    ELSE IF lhs.tag = "App" /\ rhs.tag = "App" /\ lhs.ref = rhs.ref
        THEN Unify(st, lhs.elems[1], rhs.elems[1], fuel - 1)
    ELSE IF lhs.tag = "App" /\ rhs.tag = "App"
        THEN UErr(st, "IncompatibleConstructors", lhs.ref, rhs.ref)
    ELSE IF lhs.tag = "Fun" /\ rhs.tag = "Fun"
        THEN LET d == Unify(st, lhs.elems[1], rhs.elems[1], fuel - 1)
             IN IF d.kind # "Ok" THEN d
                ELSE Unify(d.st, lhs.elems[2], rhs.elems[2], fuel - 1)
    ELSE IF lhs.tag = "Pair" /\ rhs.tag = "Pair"
        THEN UnifyElems(st, lhs.elems, rhs.elems, 1, fuel - 1)
    ELSE IF lhs.tag = "Tuple" /\ rhs.tag = "Tuple"
        THEN UnifyElems(st, lhs.elems, rhs.elems, 1, fuel - 1)
    ELSE IF lhs.tag = "Hole" THEN UnifyHole(st, lhs.idx, rhs, fuel - 1)
    ELSE IF rhs.tag = "Hole" THEN UnifyHole(st, rhs.idx, lhs, fuel - 1)
    ELSE IF lhs.tag = "Constructor" /\ rhs.tag = "Constructor"
        THEN UErr(st, "IncompatibleConstructors", lhs.ref, rhs.ref)
    ELSE UErr(st, "IncompatibleTypes", lhs, rhs)

----------------------------------------------------------------------------
(* Type::generalize (hir.rs:235-258).  The tracking map is a                *)
(* HashMap<Type, usize>; the derived Eq and Hash of Type compare a Hole by  *)
(* the current value of its Variable (hir.rs:143-155), never by the cell.   *)

\* does the tag occur anywhere in the type
RECURSIVE HasTag(_, _)
HasTag(t, tag) ==
    t.tag = tag \/ \E i \in DOMAIN t.elems : HasTag(t.elems[i], tag)

\* what Eq and Hash see of a type: every hole replaced by its cell's content
RECURSIVE Repr(_, _, _)
Repr(st, t, fuel) ==
    IF fuel = 0 THEN Ty("Diverge", "", 0, <<>>)
    ELSE IF t.tag = "Hole"
        THEN IF Value(st, t.idx) = None
             THEN Ty("Hole", "", 0, <<>>)
             ELSE Ty("Hole", "", 0, <<Repr(st, Value(st, t.idx), fuel - 1)>>)
    ELSE [t EXCEPT !.elems = [i \in DOMAIN t.elems |-> Repr(st, t.elems[i], fuel - 1)]]

\* the key under which vars.entry(value) files a type
KeyOf(st, value) == Repr(st, value, Fuel)

\* vars: the keys in insertion order; the key at position i maps to index i - 1
IndexOf(keys, key) == (CHOOSE i \in 1..Len(keys) : keys[i] = key) - 1

RECURSIVE GenGo(_, _, _)
RECURSIVE GenElems(_, _, _, _)

GenElems(st, keys, es, i) ==
    IF i > Len(es) THEN [vars |-> keys, tys |-> <<>>]
    ELSE LET h == GenGo(st, keys, es[i])
             rest == GenElems(st, h.vars, es, i + 1)
         IN [vars |-> rest.vars, tys |-> <<h.ty>> \o rest.tys]

GenGo(st, keys, value) ==
    IF value.tag = "Hole"
    THEN LET key == KeyOf(st, value)
         IN IF \E i \in 1..Len(keys) : keys[i] = key
            THEN [vars |-> keys, ty |-> Meta(IndexOf(keys, key))]
            ELSE [vars |-> Append(keys, key), ty |-> Meta(Len(keys))]
    ELSE LET g == GenElems(st, keys, value.elems, 1)
         IN [vars |-> g.vars, ty |-> [value EXCEPT !.elems = g.tys]]

Generalize(st, t) ==
    LET g == GenGo(st, <<>>, t)
    IN [args |-> Len(g.vars), mono |-> g.ty]

\* hashing a hole whose bindings form a cycle never returns
GenDiverges(st, t) == HasTag(Repr(st, t, Fuel), "Diverge")

----------------------------------------------------------------------------
(* Scheme::instantiate (hir.rs:187-206).  The fresh Variables take the cell *)
(* ids base+1 .. base+args.                                                  *)

\* an instantiate that reuses the same cells on every call
FreshHolesShared(args, base) == [idx \in 0..(args - 1) |-> Hole(idx + 1)]

\* for idx in 0..self.args { holes.insert(idx, Type::Hole(Variable::default())) }
FreshHoles(args, base) == [idx \in 0..(args - 1) |-> Hole(base + idx + 1)]

RECURSIVE InstGo(_, _)
InstGo(holes, tt) ==
    IF tt.tag = "Meta"
    THEN IF tt.idx \in DOMAIN holes THEN holes[tt.idx]
         ELSE Ty("Panic", "", 0, <<>>)        \* expect("can't index holes")
    ELSE [tt EXCEPT !.elems = [i \in DOMAIN tt.elems |-> InstGo(holes, tt.elems[i])]]

Instantiate(scheme, base) == InstGo(FreshHoles(scheme.args, base), scheme.mono)

----------------------------------------------------------------------------
(* Inputs: the types drawn for the operations.                              *)

Constructors == {"int", "string"}     \* nominal types, compared by Reference
AppNames == {"list", "option"}        \* heads of type applications

Holes(cells) == {Hole(c) : c \in cells}
Atoms(cells) == {Any} \cup {Constructor(r) : r \in Constructors} \cup Holes(cells)

\* element lists of length 0..n over S
SeqsUpTo(S, n) == UNION {[1..k -> S] : k \in 0..n}

\* the types of depth at most one over the given cells
TypesOver(cells) ==
    LET E == Atoms(cells) \ {Any}
    IN  Atoms(cells)
        \cup {Pair(s) : s \in SeqsUpTo(E, MaxLen)}
        \cup {Tuple(s) : s \in SeqsUpTo(E, MaxLen)}
        \cup {Fun(d, c) : d \in Atoms(cells), c \in Atoms(cells)}
        \cup {App(n, a) : n \in AppNames, a \in E}
        \cup {Local(a) : a \in E}

\* the cells that occur in a type, not looking through bindings
RECURSIVE CellsIn(_)
CellsIn(t) ==
    IF t.tag = "Hole" THEN {t.idx}
    ELSE UNION {CellsIn(t.elems[i]) : i \in DOMAIN t.elems}

\* the cells reachable from a type through the bindings of the store
RECURSIVE Reach(_, _, _)
Reach(st, todo, seen) ==
    IF todo = {} THEN seen
    ELSE LET c == CHOOSE x \in todo : TRUE
             more == IF st[c] = None THEN {} ELSE CellsIn(st[c])
         IN Reach(st, (todo \cup more) \ (seen \cup {c}), seen \cup {c})

CellsOf(st, t) == Reach(st, CellsIn(t), {})

----------------------------------------------------------------------------
(* Actions of the type engine.                                              *)

NoScheme == [args |-> 0, mono |-> None]

TypeInit ==
    /\ store = <<>>
    /\ nalloc = 0
    /\ last = [op |-> "init"]
    /\ sch = NoScheme
    /\ insts = <<>>

\* Variable::default(): a new, unbound cell
FreshHole(limit) ==
    /\ nalloc < limit
    /\ nalloc' = nalloc + 1
    /\ store' = Append(store, None)
    /\ last' = [op |-> "hole", cell |-> nalloc + 1]
    /\ UNCHANGED <<sch, insts>>

\* a.unify(b)
UnifyCall(a, b) ==
    LET r == Unify(store, a, b, Fuel)
    IN /\ store' = r.st
       /\ last' = [op |-> "unify", a |-> a, b |-> b, res |-> r.kind,
                   err |-> r.args, pre |-> store]
       /\ UNCHANGED <<nalloc, sch, insts>>

\* t.generalize(): the caller keeps the scheme
GeneralizeCall(t) ==
    IF GenDiverges(store, t)
    THEN /\ last' = [op |-> "generalize", t |-> t, res |-> "Diverge"]
         /\ UNCHANGED <<store, nalloc, sch, insts>>
    ELSE LET s == Generalize(store, t)
         IN /\ sch' = s
            /\ insts' = <<>>
            /\ last' = [op |-> "generalize", t |-> t, res |-> "Ok", scheme |-> s]
            /\ UNCHANGED <<store, nalloc>>

\* Scheme { args, mono }: a scheme built by the caller
NewScheme(s) ==
    /\ sch' = s
    /\ insts' = <<>>
    /\ last' = [op |-> "scheme", scheme |-> s]
    /\ UNCHANGED <<store, nalloc>>

\* sch.instantiate()
InstantiateCall ==
    /\ sch # NoScheme
    /\ LET ty == Instantiate(sch, nalloc)
       IN IF HasTag(ty, "Panic")
          THEN /\ last' = [op |-> "instantiate", res |-> "Panic"]
               /\ UNCHANGED <<store, nalloc, sch, insts>>
          ELSE /\ nalloc' = nalloc + sch.args
               /\ store' = store \o [i \in 1..sch.args |-> None]
               /\ insts' = Append(insts, ty)
               /\ last' = [op |-> "instantiate", res |-> "Ok", ty |-> ty,
                           base |-> nalloc]
               /\ UNCHANGED sch

----------------------------------------------------------------------------
(* LoweringCtx (lowering.rs:8-122).  A name is the text of its Identifier,  *)
(* a sequence of characters; a Definition is the id of its allocation.      *)

Digit(d) == <<"0", "1", "2", "3", "4", "5", "6", "7", "8", "9">>[d + 1]

\* the decimal digits of n, as format!("{}", n) writes them
RECURSIVE Digits(_)
Digits(n) == IF n < 10 THEN <<Digit(n)>> ELSE Digits(n \div 10) \o <<Digit(n % 10)>>

\* format!("_{}", n)
FreshName(n) == <<"_">> \o Digits(n)

\* a counter that is read but never advanced
BumpNone(n) == n

\* self.counter.set(self.counter.get() + 1)
Bump(n) == n + 1

\* HashMap::insert and HashMap::get on a scope
Insert(scope, name, d) ==
    [n \in (DOMAIN scope) \cup {name} |-> IF n = name THEN d ELSE scope[n]]

Ok(d) == [ok |-> TRUE, def |-> d, err |-> <<>>]
Err(e) == [ok |-> FALSE, def |-> 0, err |-> e]

Get(scope, name, e) == IF name \in DOMAIN scope THEN Ok(scope[name]) ELSE Err(<<e>>)

\* Result::map_err with an enum variant, Result::or_else
MapErr(r, variant) == IF r.ok THEN r ELSE Err(<<variant>> \o r.err)
OrElse(r, alt) == IF r.ok THEN r ELSE alt

LookupVariable(ctx, name) == Get(ctx.variables, name, "UnresolvedVariableError")
LookupConstructor(ctx, name) == Get(ctx.constructors, name, "UnresolvedConstructorError")

Lookup(ctx, name) ==
    MapErr(OrElse(MapErr(LookupConstructor(ctx, name),
                         "UnresolvedSymbolError::UnresolvedConstructorError"),
                  LookupVariable(ctx, name)),
           "UnresolvedSymbolError::UnresolvedVariableError")

BuiltinTypes == <<(<<"i", "n", "t">>), (<<"s", "t", "r", "i", "n", "g">>),
                  (<<"u", "n", "i", "t">>), (<<"l", "o", "c", "a", "l">>)>>

\* LoweringCtx::default()
DefaultCtx ==
    [variables |-> <<>>,
     constructors |-> <<>>,
     types |-> [n \in {BuiltinTypes[i] : i \in 1..4} |->
                   CHOOSE i \in 1..4 : BuiltinTypes[i] = n]]

CtxInit ==
    /\ ctxs = <<DefaultCtx>>
    /\ counter = 0
    /\ defs = BuiltinTypes
    /\ fresh = <<>>
    /\ lres = [op |-> "init"]

\* the names the lowered program uses for its variables and constructors
UserNames == {<<"x">>, <<"_", "1">>}

\* new_fresh_variable
NewFreshVariable(c) ==
    LET n == Bump(counter)
        name == FreshName(n)
        d == Len(defs) + 1
    IN /\ counter < MaxCounter
       /\ counter' = n
       /\ defs' = Append(defs, name)
       /\ ctxs' = [ctxs EXCEPT ![c].variables = Insert(@, name, d)]
       /\ fresh' = Append(fresh, [name |-> name, at |-> n, ctx |-> c])
       /\ lres' = [op |-> "new_fresh_variable", ctx |-> c, def |-> d]

Introduced == Len(defs) - Len(BuiltinTypes) - Len(fresh)

\* new_variable
NewVariable(c, name) ==
    LET d == Len(defs) + 1
    IN /\ Introduced < MaxIntro
       /\ defs' = Append(defs, name)
       /\ ctxs' = [ctxs EXCEPT ![c].variables = Insert(@, name, d)]
       /\ lres' = [op |-> "new_variable", ctx |-> c, def |-> d]
       /\ UNCHANGED <<counter, fresh>>

\* new_constructor
NewConstructor(c, name) ==
    LET d == Len(defs) + 1
    IN /\ Introduced < MaxIntro
       /\ defs' = Append(defs, name)
       /\ ctxs' = [ctxs EXCEPT ![c].constructors = Insert(@, name, d)]
       /\ lres' = [op |-> "new_constructor", ctx |-> c, def |-> d]
       /\ UNCHANGED <<counter, fresh>>

\* #[derive(Clone)]: the scopes are copied, the counter is shared
CloneCtx(c) ==
    /\ Len(ctxs) < MaxCtx
    /\ ctxs' = Append(ctxs, ctxs[c])
    /\ lres' = [op |-> "clone", ctx |-> c]
    /\ UNCHANGED <<counter, defs, fresh>>

\* lookup
LookupCall(c, name) ==
    /\ lres' = [op |-> "lookup", ctx |-> c, name |-> name, res |-> Lookup(ctxs[c], name)]
    /\ UNCHANGED <<ctxs, counter, defs, fresh>>

CtxIds == 1..Len(ctxs)

CtxFresh == (\E c \in CtxIds : NewFreshVariable(c)) /\ UNCHANGED <<tvars, svars>>
CtxVariable ==
    (\E c \in CtxIds, name \in UserNames : NewVariable(c, name)) /\ UNCHANGED <<tvars, svars>>
CtxConstructor ==
    (\E c \in CtxIds, name \in UserNames : NewConstructor(c, name)) /\ UNCHANGED <<tvars, svars>>
CtxClone == (\E c \in CtxIds : CloneCtx(c)) /\ UNCHANGED <<tvars, svars>>
CtxLookup ==
    (\E c \in CtxIds, name \in UserNames \cup {FreshName(2)} : LookupCall(c, name))
    /\ UNCHANGED <<tvars, svars>>

CtxNext == CtxFresh \/ CtxVariable \/ CtxConstructor \/ CtxClone

LookupNext == CtxFresh \/ CtxVariable \/ CtxConstructor \/ CtxLookup

----------------------------------------------------------------------------
(* sep_by (lowering.rs:134-152) on the concrete syntax tree.                *)

Tm(tag, op, kids) == [tag |-> tag, op |-> op, kids |-> kids]
Var(name) == Tm("Var", name, <<>>)
BinOp(lhs, op, rhs) == Tm("BinOp", op, <<lhs, rhs>>)
SrcPos(term) == Tm("SrcPos", "", <<term>>)

\* while let BinOp(lhs, op, rhs) = acc { if desired == op { push; acc = rhs } else { break } }
RECURSIVE SepLoop(_, _, _)
SepLoop(desired, acc, terms) ==
    IF acc.tag = "BinOp" /\ acc.op = desired
    THEN SepLoop(desired, acc.kids[2], Append(terms, acc.kids[1]))
    ELSE terms

SepBy(desired, acc) ==
    SepLoop(desired, IF acc.tag = "SrcPos" THEN acc.kids[1] ELSE acc, <<>>)

BinOps == {"Comma", "Semi"}
Operand == {Var("a"), Var("b"), SrcPos(Var("a"))}

\* the terms whose operator spine is at most n long
RECURSIVE Chains(_)
Chains(n) ==
    IF n = 0 THEN Operand
    ELSE LET C == Chains(n - 1)
         IN C \cup {BinOp(l, op, r) : l \in Operand, op \in BinOps, r \in C}
              \cup {SrcPos(t) : t \in C}

SepInit ==
    /\ gas = 0
    /\ sres = [op |-> "init"]

\* sep_by, with burn at its entry
SepByCall(desired, acc) ==
    IF debug /\ gas = GasLimit
    THEN /\ sres' = [op |-> "sep_by", desired |-> desired, acc |-> acc, res |-> "Panic"]
         /\ UNCHANGED <<debug, gas>>
    ELSE /\ gas' = IF debug THEN gas + 1 ELSE gas
         /\ sres' = [op |-> "sep_by", desired |-> desired, acc |-> acc, res |-> "Ok",
                     terms |-> SepBy(desired, acc)]
         /\ UNCHANGED debug

\* one call of sep_by on a drawn operator and term, in either build
SepDraw ==
    /\ TypeInit
    /\ CtxInit
    /\ gas = 0
    /\ debug \in BOOLEAN
    /\ \E desired \in BinOps, acc \in Chains(MaxDepth) :
          sres = [op |-> "input", desired |-> desired, acc |-> acc]

SepCall ==
    /\ sres.op = "input"
    /\ SepByCall(sres.desired, sres.acc)
    /\ UNCHANGED <<tvars, cvars>>

SepNext == SepCall

SpecSep == SepDraw /\ [][SepNext]_vars

Init == TypeInit /\ CtxInit /\ SepInit /\ debug = TRUE

SpecCtx == Init /\ [][CtxNext]_vars

SpecLookup == Init /\ [][LookupNext]_vars

----------------------------------------------------------------------------
(* Inference of one binding: holes are made and unified, in any number of   *)
(* calls, and the inferred type is generalized.                             *)

IntT == Constructor("int")
StringT == Constructor("string")

\* the closed types unified against holes
ClosedTypes ==
    {Any, IntT, StringT, Fun(IntT, IntT), Fun(StringT, IntT),
     App("list", IntT), App("option", IntT)}

BindTypes(cells) == ClosedTypes \cup Holes(cells)

InferTypes(cells) == Holes(cells) \cup {Pair(<<a, b>>) : a, b \in Holes(cells)}

Cells == 1..nalloc

InferHole == sch = NoScheme /\ FreshHole(MaxHoles) /\ UNCHANGED <<cvars, svars>>

InferUnify ==
    /\ sch = NoScheme
    /\ \E x \in Holes(Cells), y \in BindTypes(Cells) :
          UnifyCall(x, y) \/ UnifyCall(y, x)
    /\ UNCHANGED <<cvars, svars>>

InferGeneralize ==
    /\ sch = NoScheme
    /\ \E t \in InferTypes(Cells) : GeneralizeCall(t)
    /\ UNCHANGED <<cvars, svars>>

Next == InferHole \/ InferUnify \/ InferGeneralize

Spec == Init /\ [][Next]_vars

----------------------------------------------------------------------------
(* Use of a scheme: a type over unbound holes is generalized, or a scheme   *)
(* is built, the scheme is instantiated, and an instance is unified once.   *)

GenTypes(cells) ==
    LET E == Holes(cells) \cup {IntT}
    IN  Atoms(cells) \cup {Meta(0)}
        \cup {Pair(s) : s \in SeqsUpTo(E, 2)}
        \cup {Fun(d, c) : d \in E, c \in E}

Monos ==
    {IntT, Meta(0), Meta(1), Pair(<<Meta(0), Meta(0)>>), Pair(<<Meta(0), Meta(1)>>),
     Fun(Meta(0), IntT), Fun(Meta(1), Meta(0)), Local(Meta(0))}

Schemes == {[args |-> k, mono |-> m] : k \in 0..2, m \in Monos}

UseHole == sch = NoScheme /\ FreshHole(MaxHoles) /\ UNCHANGED <<cvars, svars>>

UseGeneralize ==
    /\ sch = NoScheme
    /\ \E t \in GenTypes(Cells) : GeneralizeCall(t)
    /\ UNCHANGED <<cvars, svars>>

UseScheme ==
    /\ sch = NoScheme
    /\ \E s \in Schemes : NewScheme(s)
    /\ UNCHANGED <<cvars, svars>>

UseInstantiate ==
    /\ Len(insts) < MaxInst
    /\ last.op # "unify"
    /\ InstantiateCall
    /\ UNCHANGED <<cvars, svars>>

UseUnify ==
    /\ last.op # "unify"
    /\ \E i \in 1..Len(insts), y \in ClosedTypes :
          UnifyCall(insts[i], y) \/ UnifyCall(y, insts[i])
    /\ UNCHANGED <<cvars, svars>>

UseNext == UseHole \/ UseGeneralize \/ UseScheme \/ UseInstantiate \/ UseUnify

SpecUse == Init /\ [][UseNext]_vars

----------------------------------------------------------------------------
(* Single unify calls on operands that share no hole, all holes unbound.    *)

LeftSet == 1..LeftCells
RightSet == (LeftCells + 1)..(LeftCells + RightCells)

PureHole == FreshHole(LeftCells + RightCells) /\ UNCHANGED <<cvars, svars>>

PureUnify ==
    /\ nalloc = LeftCells + RightCells
    /\ last.op # "unify"
    /\ \E a \in TypesOver(LeftSet), b \in TypesOver(RightSet) :
          UnifyCall(a, b) \/ UnifyCall(b, a)
    /\ UNCHANGED <<cvars, svars>>

PureNext == PureHole \/ PureUnify

SpecPure == Init /\ [][PureNext]_vars

----------------------------------------------------------------------------
(* A hole unified again and again with closed types, on either side.        *)

RebindTypes ==
    ClosedTypes \cup
    {Fun(Fun(IntT, IntT), IntT), Pair(<<IntT>>), Pair(<<IntT, StringT>>),
     Tuple(<<IntT>>), Local(IntT)}

RebindHole == FreshHole(RebindHoles) /\ UNCHANGED <<cvars, svars>>

RebindUnify ==
    /\ \E x \in Holes(Cells), y \in RebindTypes \cup Holes(Cells) :
          UnifyCall(x, y) \/ UnifyCall(y, x)
    /\ UNCHANGED <<cvars, svars>>

RebindNext == RebindHole \/ RebindUnify

SpecRebind == Init /\ [][RebindNext]_vars

----------------------------------------------------------------------------
(* Single unify calls of Pair with Pair and of Tuple with Tuple, the two    *)
(* element lists over holes of their own, all unbound.                      *)

ZipElems(cells) == {IntT, StringT} \cup Holes(cells)

ZipHole == FreshHole(2 * ZipCells) /\ UNCHANGED <<cvars, svars>>

ZipUnify ==
    /\ nalloc = 2 * ZipCells
    /\ last.op # "unify"
    /\ \E ls \in SeqsUpTo(ZipElems(1..ZipCells), ZipLen),
          rs \in SeqsUpTo(ZipElems((ZipCells + 1)..(2 * ZipCells)), ZipLen) :
          \/ UnifyCall(Pair(ls), Pair(rs))
          \/ UnifyCall(Pair(rs), Pair(ls))
          \/ UnifyCall(Tuple(ls), Tuple(rs))
          \/ UnifyCall(Tuple(rs), Tuple(ls))
    /\ UNCHANGED <<cvars, svars>>

ZipNext == ZipHole \/ ZipUnify

SpecZip == Init /\ [][ZipNext]_vars

----------------------------------------------------------------------------
(* Vocabulary of the properties.                                            *)

IsOk(kind) == kind = "Ok"

Injections(S, T) == {f \in [S -> T] : \A x, y \in S : f[x] = f[y] => x = y}

\* t with every Hole(c) replaced by Meta(f[c])
RECURSIVE HolesToMetas(_, _)
HolesToMetas(t, f) ==
    IF t.tag = "Hole" THEN Meta(f[t.idx])
    ELSE [t EXCEPT !.elems = [i \in DOMAIN t.elems |-> HolesToMetas(t.elems[i], f)]]

\* t with every Hole(c) replaced by Hole(g[c])
RECURSIVE RenameHoles(_, _)
RenameHoles(t, g) ==
    IF t.tag = "Hole" THEN Hole(g[t.idx])
    ELSE [t EXCEPT !.elems = [i \in DOMAIN t.elems |-> RenameHoles(t.elems[i], g)]]

\* m with every Meta(i) replaced by Hole(f[i])
RECURSIVE MetasToHoles(_, _)
MetasToHoles(m, f) ==
    IF m.tag = "Meta" THEN Hole(f[m.idx])
    ELSE [m EXCEPT !.elems = [i \in DOMAIN m.elems |-> MetasToHoles(m.elems[i], f)]]

\* equal up to a one-to-one renaming of holes
AlphaEq(t, u) == \E g \in Injections(CellsIn(t), CellsIn(u)) : RenameHoles(t, g) = u

RECURSIVE MetasIn(_)
MetasIn(t) ==
    IF t.tag = "Meta" THEN {t.idx}
    ELSE UNION {MetasIn(t.elems[i]) : i \in DOMAIN t.elems}

\* a scheme's mono holds only Meta indices below args, and no Hole
WellFormed(s) ==
    /\ s.mono # None
    /\ ~HasTag(s.mono, "Hole")
    /\ \A i \in MetasIn(s.mono) : i < s.args

\* a type without holes and without scheme slots
Concrete(t) == t # None /\ ~HasTag(t, "Hole") /\ ~HasTag(t, "Meta")

Unbound(st, cells) == \A c \in cells : st[c] = None

----------------------------------------------------------------------------
(* C1: for a Meta-free type t over k distinct unbound cells, generalize     *)
(* returns args = k and maps the cells one-to-one to Meta indices, so that  *)
(* instantiating the scheme gives t back up to a renaming of holes.         *)

GeneralizedUnbound ==
    /\ last.op = "generalize"
    /\ last.res = "Ok"
    /\ ~HasTag(last.t, "Meta")
    /\ Unbound(store, CellsIn(last.t))

\* C1: generalize of a Meta-free type over k distinct unbound cells returns
\* args = k, maps the cells one-to-one to Meta indices, and instantiate gives
\* the type back up to a one-to-one renaming of holes.
C1_GeneralizeRoundTrip ==
    GeneralizedUnbound =>
        LET k == Cardinality(CellsIn(last.t))
        IN /\ last.scheme.args = k
           /\ \E f \in Injections(CellsIn(last.t), 0..(k - 1)) :
                 last.scheme.mono = HolesToMetas(last.t, f)
           /\ AlphaEq(last.t, Instantiate(last.scheme, nalloc))

----------------------------------------------------------------------------
(* C2: a hole bound by unify to Constructor(int) generalizes to             *)
(* Scheme{args: 0, mono: Constructor(int)}.                                 *)

GeneralizedIntHole ==
    /\ last.op = "generalize"
    /\ last.t.tag = "Hole"
    /\ store[last.t.idx] = IntT

\* C2: generalize of a hole bound to Constructor(int) returns
\* Scheme{args: 0, mono: Constructor(int)}.
C2_BoundHoleGeneralizesClosed ==
    GeneralizedIntHole =>
        last.res = "Ok" /\ last.scheme = [args |-> 0, mono |-> IntT]

----------------------------------------------------------------------------
(* C3: no cell is bound, directly or through bound holes, to a type that    *)
(* contains that cell.                                                      *)

\* C3: no bound cell reaches itself through the bindings of the store.
C3_NoCycles ==
    \A c \in Cells : store[c] # None => c \notin CellsOf(store, store[c])

----------------------------------------------------------------------------
(* C4: a hole bound to a concrete type c1 and unified again, on either      *)
(* side, with an incompatible concrete type c2 fails and keeps c1.          *)

\* the first mismatch of two concrete types, compared position by position
RECURSIVE Clash(_, _)
RECURSIVE ClashElems(_, _, _)
ClashElems(ls, rs, i) ==
    IF i > Min(Len(ls), Len(rs)) THEN "none"
    ELSE IF Clash(ls[i], rs[i]) # "none" THEN Clash(ls[i], rs[i])
    ELSE ClashElems(ls, rs, i + 1)
Clash(l, r) ==
    IF l.tag = "Any" \/ r.tag = "Any" THEN "none"
    ELSE IF l.tag # r.tag THEN "types"
    ELSE IF l.ref # r.ref THEN "constructors"
    ELSE ClashElems(l.elems, r.elems, 1)

\* last was unify of Hole(h), bound to c1, with c2
Rebind(h, c1, c2) ==
    /\ last.op = "unify"
    /\ \/ last.a = Hole(h) /\ last.b = c2
       \/ last.b = Hole(h) /\ last.a = c2
    /\ last.pre[h] = c1
    /\ Concrete(c1)
    /\ Concrete(c2)
    /\ Clash(c1, c2) # "none"

Operands == IF last.op = "unify" THEN {last.a, last.b} ELSE {}

\* C4 as stated: the rebind fails with IncompatibleTypes, whatever the two
\* types are, and the hole keeps c1.
C4_RebindFailsIncompatibleTypes ==
    \A h \in Cells, c2 \in Operands :
        Rebind(h, last.pre[h], c2) =>
            last.res = "IncompatibleTypes" /\ store[h] = last.pre[h]

\* C4, amended: the rebind fails and keeps c1; the error is
\* IncompatibleConstructors when the first mismatch is between two different
\* Constructor references or App heads, and IncompatibleTypes otherwise.
C4_RebindFails ==
    \A h \in Cells, c2 \in Operands :
        Rebind(h, last.pre[h], c2) =>
            /\ store[h] = last.pre[h]
            /\ last.res = IF Clash(last.pre[h], c2) = "constructors"
                          THEN "IncompatibleConstructors"
                          ELSE "IncompatibleTypes"

C4_Witness ==
    \E h \in Cells :
        /\ last.op = "unify"
        /\ last.b = Hole(h)
        /\ Rebind(h, IntT, StringT)
        /\ last.res = "IncompatibleConstructors"
        /\ store[h] = IntT

----------------------------------------------------------------------------
(* C5: on operands that share no hole, with every hole unbound, unify(a, b) *)
(* and unify(b, a) agree on success versus failure.                         *)

DisjointUnbound ==
    /\ last.op = "unify"
    /\ CellsIn(last.a) \cap CellsIn(last.b) = {}
    /\ Unbound(last.pre, 1..Len(last.pre))

\* C5: on operands sharing no hole, all holes unbound, unify(a, b) succeeds
\* exactly when unify(b, a), run from the same store, succeeds.
C5_UnifySymmetric ==
    DisjointUnbound =>
        (IsOk(last.res) <=> IsOk(Unify(last.pre, last.b, last.a, Fuel).kind))

----------------------------------------------------------------------------
(* C6: two instantiations of one well-formed scheme have disjoint cells,    *)
(* each maps every Meta(i) to one cell of its own, and binding the holes of *)
(* one through unify leaves the holes of the other unbound.                 *)

\* C6: every instance maps each Meta(i) to one cell of its own, two instances
\* share no cell, and a unify on one instance leaves the others unbound.
C6_InstancesIndependent ==
    WellFormed(sch) =>
        /\ \A i \in 1..Len(insts) :
              \E f \in Injections(0..(sch.args - 1), Cells) :
                 insts[i] = MetasToHoles(sch.mono, f)
        /\ \A i, j \in 1..Len(insts) :
              i # j => CellsIn(insts[i]) \cap CellsIn(insts[j]) = {}
        /\ \A j \in 1..Len(insts) :
              (last.op = "unify" /\ insts[j] \notin Operands) =>
                  Unbound(store, CellsIn(insts[j]))

C6_Witness ==
    /\ WellFormed(sch)
    /\ Len(insts) = 2
    /\ last.op = "unify"
    /\ last.a = insts[1]
    /\ IsOk(last.res)
    /\ \E c \in CellsIn(insts[1]) : store[c] # None
    /\ CellsIn(insts[2]) # {}

----------------------------------------------------------------------------
(* C9: Pair with Pair, or Tuple with Tuple, unifies the first min(m, n)     *)
(* elements in order, succeeds exactly when each of them does, also when    *)
(* m # n, and binds no hole that occurs only in the surplus elements.       *)

SeqUnify ==
    /\ last.op = "unify"
    /\ last.a.tag = last.b.tag
    /\ last.a.tag \in {"Pair", "Tuple"}

\* the store after the first i element pairs were unified in order
RECURSIVE StoreAfter(_, _, _, _)
StoreAfter(st, ls, rs, i) ==
    IF i = 0 THEN st
    ELSE Unify(StoreAfter(st, ls, rs, i - 1), ls[i], rs[i], Fuel).st

ElemOk(st, ls, rs, i) ==
    IsOk(Unify(StoreAfter(st, ls, rs, i - 1), ls[i], rs[i], Fuel).kind)

CellsOfElems(es, from, to) == UNION {CellsIn(es[i]) : i \in from..to}

SurplusOnly(ls, rs) ==
    LET k == Min(Len(ls), Len(rs))
    IN (CellsOfElems(ls, k + 1, Len(ls)) \cup CellsOfElems(rs, k + 1, Len(rs)))
       \ (CellsOfElems(ls, 1, k) \cup CellsOfElems(rs, 1, k))

\* C9: a Pair/Pair or Tuple/Tuple unify succeeds exactly when each of the
\* first min(m, n) element pairs unifies in order, and leaves the holes that
\* occur only in the surplus elements as they were.
C9_ZipsToShortest ==
    SeqUnify =>
        LET ls == last.a.elems
            rs == last.b.elems
        IN /\ IsOk(last.res) <=>
                 \A i \in 1..Min(Len(ls), Len(rs)) : ElemOk(last.pre, ls, rs, i)
           /\ \A c \in SurplusOnly(ls, rs) : store[c] = last.pre[c]

C9_Witness ==
    /\ SeqUnify
    /\ Len(last.a.elems) = 1
    /\ Len(last.b.elems) = 3
    /\ IsOk(last.res)
    /\ SurplusOnly(last.a.elems, last.b.elems) # {}
    /\ \E c \in 1..Len(store) : store[c] # None

----------------------------------------------------------------------------
(* C7: lookup returns the constructor-scope definition if there is one,     *)
(* else the variable-scope definition if there is one, and else fails with  *)
(* the variant that reports the failed constructor lookup.                  *)

\* C7: lookup returns the constructor-scope definition, else the
\* variable-scope definition, else an error of the UnresolvedConstructorError
\* variant, which reports the constructor lookup that failed.
C7_LookupReportsFailedScope ==
    lres.op = "lookup" =>
        LET ctx == ctxs[lres.ctx]
        IN IF lres.name \in DOMAIN ctx.constructors
           THEN lres.res = Ok(ctx.constructors[lres.name])
           ELSE IF lres.name \in DOMAIN ctx.variables
           THEN lres.res = Ok(ctx.variables[lres.name])
           ELSE /\ ~lres.res.ok
                /\ lres.res.err[1] = "UnresolvedSymbolError::UnresolvedConstructorError"

----------------------------------------------------------------------------
(* C8: over the calls of new_fresh_variable on a context and its clones,    *)
(* interleaved with the other operations, every synthesized name differs    *)
(* from the earlier ones, and the counter strictly increases and is never   *)
(* reset.                                                                   *)

\* the names _1 .. _NameRange are pairwise distinct
NamesDistinct == Cardinality({FreshName(n) : n \in 1..NameRange}) = NameRange

\* C8: the synthesized names are pairwise distinct, the counter values of
\* successive calls strictly increase, the counter is the value of the last
\* call, and the names _1 .. _NameRange are pairwise distinct.
C8_FreshNamesNeverRepeat ==
    /\ \A i, j \in 1..Len(fresh) :
          i < j => fresh[i].name # fresh[j].name /\ fresh[i].at < fresh[j].at
    /\ counter = IF fresh = <<>> THEN 0 ELSE fresh[Len(fresh)].at
    /\ NamesDistinct

C8_Witness ==
    /\ Len(ctxs) >= 2
    /\ Len(fresh) >= 3
    /\ \E i, j \in 1..Len(fresh) : fresh[i].ctx # fresh[j].ctx
    /\ lres.op = "new_variable"

----------------------------------------------------------------------------
(* C10: for a chain x1 op x2 op ... op xn, n >= 2, whose spine operators    *)
(* all equal the desired one, optionally wrapped in one SrcPos, sep_by      *)
(* returns <<x1, ..., xn>>.                                                 *)

\* the operands of the chain, the last one included
RECURSIVE ChainOperands(_, _)
ChainOperands(desired, t) ==
    IF t.tag = "BinOp" /\ t.op = desired
    THEN <<t.kids[1]>> \o ChainOperands(desired, t.kids[2])
    ELSE <<t>>

Unwrapped(t) == IF t.tag = "SrcPos" THEN t.kids[1] ELSE t

\* every spine node is an operation of the desired operator
PureChain(desired, t) ==
    LET xs == ChainOperands(desired, Unwrapped(t))
    IN Len(xs) >= 2 /\ xs[Len(xs)].tag # "BinOp"

\* C10: on a chain of n >= 2 operands joined by the desired operator, sep_by
\* returns all n operands in source order.
C10_SepByReturnsAllOperands ==
    (sres.op = "sep_by" /\ PureChain(sres.desired, sres.acc)) =>
        /\ sres.res = "Ok"
        /\ sres.terms = ChainOperands(sres.desired, Unwrapped(sres.acc))

====
